---- MODULE Spec2Model ----
(***************************************************************************)
(* Model of main.py: a FastAPI application over two MongoDB collections.   *)
(*   collection        ('mycollection')  holds IP counters AND users       *)
(*   blogs_collection  ('AI_Blogs')      holds blog posts                  *)
(* Every handler is a coroutine; it can be interleaved with other requests *)
(* only where it awaits a store operation.  A store operation is applied   *)
(* by the store as one atomic step.  An action of the model is the code of *)
(* a handler from one suspension point up to and including the next store  *)
(* operation (or up to the response).                                      *)
(***************************************************************************)
EXTENDS Integers, Sequences, FiniteSets, TLC

\* ---------------------------------------------------------------- bounds
\* requests answered in one behaviour
MaxOps == 4
\* create_dbuser requests that can be in flight at the same time
MaxTasks == 2

\* ---------------------------------------------------------------- inputs
\* Path text of the counter routes, as its dot-separated decimal fields:
\* "10.0.0.1", "192.168.1.7", "10.0.0.256", "10.0.0"
IpPaths == { <<10, 0, 0, 1>>, <<192, 168, 1, 7>>, <<10, 0, 0, 256>>, <<10, 0, 0>> }
Usernames == { "alice", "bob", "carol" }
\* request bodies of POST /dbusers/ (two of them share an email)
UserInputs == { [username |-> "alice", email |-> "a@x.org"],
                [username |-> "bob",   email |-> "a@x.org"],
                [username |-> "bob",   email |-> "b@x.org"] }
\* request bodies of POST /api/add-blog
BlogInputs == { [Title |-> "T1", BlogType |-> "tech", MarkdownContent |-> "old"],
                [Title |-> "T2", BlogType |-> "news", MarkdownContent |-> "old"] }
\* request bodies of PATCH /api/update-blog-content/{blog_id}
ContentInputs == { "new" }
\* a path segment that is not the text of any ObjectId
MalformedId == <<"x", "y", "z">>

VARIABLES
    collection,        \* db['mycollection']: documents in insertion order
    blogs_collection,  \* db['AI_Blogs']: documents in insertion order
    oidCounter,        \* number of ObjectIds generated so far
    tasks,             \* create_dbuser coroutines suspended between their two awaits
    responses          \* the answered requests, in the order they were answered

vars == <<collection, blogs_collection, oidCounter, tasks, responses>>

\* ------------------------------------------------------------ BSON values
\* Python's None (find_one / find_one_and_update found nothing)
None == [none |-> TRUE]

\* bson.ObjectId: the n-th identifier the store generates
ObjectId(n) == [type |-> "ObjectId", value |-> n]

\* a Python str holding an identifier, as its sequence of characters
StrValue(chars) == [type |-> "str", value |-> chars]

HexChars == <<"0", "1", "2", "3", "4", "5", "6", "7",
              "8", "9", "a", "b", "c", "d", "e", "f">>

\* an ObjectId is 12 bytes, written as 24 hexadecimal characters
OidHexLen == 24

\* str(ObjectId): the 24 hexadecimal characters, most significant first
StrOfObjectId(oid) ==
    StrValue([i \in 1..OidHexLen |->
                LET e == OidHexLen - i
                IN  IF e > 5 THEN "0"
                    ELSE HexChars[((oid.value \div (16 ^ e)) % 16) + 1]])

HexDigit(c) == CHOOSE d \in 0..15 : HexChars[d + 1] = c

IsHexChar(c) == \E d \in 1..16 : HexChars[d] = c

\* bson.ObjectId.is_valid on a str: exactly 24 hexadecimal characters
IsValidObjectIdStr(s) ==
    /\ Len(s.value) = OidHexLen
    /\ \A i \in 1..OidHexLen : IsHexChar(s.value[i])

RECURSIVE HexValue(_)
HexValue(chars) ==
    IF chars = <<>> THEN 0
    ELSE 16 * HexValue(SubSeq(chars, 1, Len(chars) - 1)) + HexDigit(chars[Len(chars)])

\* ObjectId(blog_id): parses the text; raises InvalidId on malformed text
ParseObjectId(s) ==
    IF IsValidObjectIdStr(s) THEN ObjectId(HexValue(s.value)) ELSE None

\* BSON equality is typed: an ObjectId never equals a string
BsonIdEq(a, b) == a.type = b.type /\ a.value = b.value

\* pydantic IPvAnyAddress on the dotted text: four decimal fields 0..255
\* (the IPv4 form; no input of the model is written in the IPv6 form)
IsIPvAnyAddress(ip) ==
    /\ Len(ip) = 4
    /\ \A i \in 1..4 : ip[i] \in 0..255

\* -------------------------------------------------------- store primitives
Min(S) == CHOOSE x \in S : \A y \in S : x <= y

\* does a document match the one-field equality filter {field: value}
Matches(doc, field, value) ==
    /\ field \in DOMAIN doc
    /\ IF field = "_id" THEN BsonIdEq(doc[field], value) ELSE doc[field] = value

\* index of the first document matching {field: value}, 0 when there is none
FindIndex(coll, field, value) ==
    LET hits == { i \in 1..Len(coll) : Matches(coll[i], field, value) }
    IN  IF hits = {} THEN 0 ELSE Min(hits)

\* collection.find_one({field: value})
find_one(coll, field, value) ==
    LET i == FindIndex(coll, field, value)
    IN  IF i = 0 THEN None ELSE coll[i]

RemoveAt(coll, i) == SubSeq(coll, 1, i - 1) \o SubSeq(coll, i + 1, Len(coll))

\* ------------------------------------------------------------- responses
\* what FastAPI sends for a returned value or a raised HTTPException
Response(status, body) == [status |-> status, body |-> body]

HTTPException(status, detail) == Response(status, [detail |-> detail])

\* an exception no handler catches, or a return value that fails the route's
\* response_model: FastAPI answers 500
InternalServerError == Response(500, [detail |-> "Internal Server Error"])

Answered(op, arg, resp) ==
    [op |-> op, arg |-> arg, status |-> resp.status, body |-> resp.body]

\* every request already answered or still in flight
Started == Len(responses) + Cardinality({ t \in DOMAIN tasks : tasks[t].pc # "idle" })

\* the text of every identifier the store has generated, of the next one it
\* would generate, and one malformed text
IdPaths ==
    { StrOfObjectId(ObjectId(n)) : n \in 1..(oidCounter + 1) } \cup { StrValue(MalformedId) }

\* -------------------------------------------------------- Counter Service
\* response_model=IPRequestResponse: ip_address must validate as IPvAnyAddress
IPRequestResponse(body) ==
    IF IsIPvAnyAddress(body.ip_address) THEN Response(200, body) ELSE InternalServerError

\* lines 77-79, 94-96, 108-112: the handler's code after the await
CounterReply(result, status, detail) ==
    IF result # None
    THEN IPRequestResponse([ip_address |-> result.ip_address,
                            request_count |-> result.request_count])
    ELSE HTTPException(status, detail)

\* faulty variant: $setOnInsert written as $set (an existing count is
\* overwritten with 0)
NoIncrementUpsertSet(coll, ip_address, oid) ==
    LET i == FindIndex(coll, "ip_address", ip_address)
        doc == [_id |-> oid, ip_address |-> ip_address, request_count |-> 0]
        upd == [coll EXCEPT ![i].request_count = 0]
    IN  IF i # 0
        THEN [coll |-> upd, result |-> upd[i]]
        ELSE [coll |-> Append(coll, doc), result |-> doc]

\* faulty variant: an insert_one where the upsert should be (no lookup of the key)
NoIncrementUpsertInsert(coll, ip_address, oid) ==
    LET doc == [_id |-> oid, ip_address |-> ip_address, request_count |-> 0]
    IN  [coll |-> Append(coll, doc), result |-> doc]

\* find_one_and_update({ip_address}, {$setOnInsert: {ip_address, request_count: 0}},
\*                     upsert=True, return_document=AFTER)
NoIncrementUpsert(coll, ip_address, oid) ==
    LET i == FindIndex(coll, "ip_address", ip_address)
        doc == [_id |-> oid, ip_address |-> ip_address, request_count |-> 0]
    IN  IF i # 0
        THEN [coll |-> coll, result |-> coll[i]]
        ELSE [coll |-> Append(coll, doc), result |-> doc]

\* faulty variant: the new count is written from a stale value ($inc written as $set 1)
IncrementUpsertOverwrite(coll, ip_address, oid) ==
    LET i == FindIndex(coll, "ip_address", ip_address)
        doc == [_id |-> oid, ip_address |-> ip_address, request_count |-> 1]
        upd == [coll EXCEPT ![i].request_count = 1]
    IN  IF i # 0
        THEN [coll |-> upd, result |-> upd[i]]
        ELSE [coll |-> Append(coll, doc), result |-> doc]

\* faulty variant: the document returned is the one before the update
\* (return_document=BEFORE on an existing entity)
IncrementUpsertBefore(coll, ip_address, oid) ==
    LET i == FindIndex(coll, "ip_address", ip_address)
        doc == [_id |-> oid, ip_address |-> ip_address, request_count |-> 1]
        upd == [coll EXCEPT ![i].request_count = @ + 1]
    IN  IF i # 0
        THEN [coll |-> upd, result |-> coll[i]]
        ELSE [coll |-> Append(coll, doc), result |-> doc]

\* find_one_and_update({ip_address}, {$inc: {request_count: 1},
\*                     $setOnInsert: {ip_address}}, upsert=True, return_document=AFTER)
IncrementUpsert(coll, ip_address, oid) ==
    LET i == FindIndex(coll, "ip_address", ip_address)
        doc == [_id |-> oid, ip_address |-> ip_address, request_count |-> 1]
        upd == [coll EXCEPT ![i].request_count = @ + 1]
    IN  IF i # 0
        THEN [coll |-> upd, result |-> upd[i]]
        ELSE [coll |-> Append(coll, doc), result |-> doc]

\* faulty variant: the reset is an upsert (upsert=True), creating unseen keys
ResetUpdateUpsert(coll, ip_address) ==
    LET i == FindIndex(coll, "ip_address", ip_address)
        upd == [coll EXCEPT ![i].request_count = 0]
        doc == [_id |-> ObjectId(Len(coll) + 1), ip_address |-> ip_address,
                request_count |-> 0]
    IN  IF i # 0
        THEN [coll |-> upd, result |-> upd[i]]
        ELSE [coll |-> Append(coll, doc), result |-> doc]

\* find_one_and_update({ip_address}, {$set: {request_count: 0}}, return_document=AFTER)
ResetUpdate(coll, ip_address) ==
    LET i == FindIndex(coll, "ip_address", ip_address)
        upd == [coll EXCEPT ![i].request_count = 0]
    IN  IF i # 0
        THEN [coll |-> upd, result |-> upd[i]]
        ELSE [coll |-> coll, result |-> None]

\* the store generated an ObjectId iff the operation inserted a document
OidsAfter(before, after) ==
    IF Len(after) > Len(before) THEN oidCounter + 1 ELSE oidCounter

\* GET /requests/no-increment/{ip_address}
get_or_create_no_increment(ip_address) ==
    /\ Started < MaxOps
    /\ LET r == NoIncrementUpsert(collection, ip_address, ObjectId(oidCounter + 1))
       IN  /\ collection' = r.coll
           /\ oidCounter' = OidsAfter(collection, r.coll)
           /\ responses' = Append(responses,
                  Answered("no-increment", ip_address,
                      CounterReply(r.result, 500, "Failed to retrieve or create IP entry")))
    /\ UNCHANGED <<blogs_collection, tasks>>

\* GET /requests/increment/{ip_address}
get_or_create_and_increment(ip_address) ==
    /\ Started < MaxOps
    /\ LET r == IncrementUpsert(collection, ip_address, ObjectId(oidCounter + 1))
       IN  /\ collection' = r.coll
           /\ oidCounter' = OidsAfter(collection, r.coll)
           /\ responses' = Append(responses,
                  Answered("increment", ip_address,
                      CounterReply(r.result, 500, "Failed to retrieve or increment IP entry")))
    /\ UNCHANGED <<blogs_collection, tasks>>

\* POST /requests/reset/{ip_address}
reset_request_count(ip_address) ==
    /\ Started < MaxOps
    /\ LET r == ResetUpdate(collection, ip_address)
       IN  /\ collection' = r.coll
           /\ responses' = Append(responses,
                  Answered("reset", ip_address,
                      CounterReply(r.result, 404, "No entry found for IP address")))
    /\ UNCHANGED <<blogs_collection, oidCounter, tasks>>

\* --------------------------------------------------------- Blog Repository
\* blogs_collection.delete_one({"_id": oid}): removes the first match
DeleteOne(coll, oid) ==
    LET i == FindIndex(coll, "_id", oid)
    IN  IF i # 0
        THEN [coll |-> RemoveAt(coll, i), deleted_count |-> 1]
        ELSE [coll |-> coll, deleted_count |-> 0]

\* blogs_collection.update_one({"_id": oid}, {"$set": {"MarkdownContent": content}})
UpdateOneContent(coll, oid, content) ==
    LET i == FindIndex(coll, "_id", oid)
    IN  IF i # 0
        THEN [coll |-> [coll EXCEPT ![i].MarkdownContent = content], matched_count |-> 1]
        ELSE [coll |-> coll, matched_count |-> 0]

\* the document add_blog inserts
NewBlog(blog, oid) ==
    [_id |-> oid, Title |-> blog.Title, BlogType |-> blog.BlogType,
     MarkdownContent |-> blog.MarkdownContent]

\* DELETE /api/delete-blog/{blog_id}
delete_blog(blog_id) ==
    /\ Started < MaxOps
    /\ LET oid == ParseObjectId(blog_id)
           r == DeleteOne(blogs_collection, oid)
       IN  IF oid = None
           THEN \* ObjectId(blog_id) raised InvalidId before the store was called
                /\ blogs_collection' = blogs_collection
                /\ responses' = Append(responses,
                       Answered("delete-blog", blog_id, InternalServerError))
           ELSE /\ blogs_collection' = r.coll
                /\ responses' = Append(responses,
                       Answered("delete-blog", blog_id,
                           IF r.deleted_count = 1
                           THEN Response(204, None)
                           ELSE HTTPException(404, "Blog not found")))
    /\ UNCHANGED <<collection, oidCounter, tasks>>

\* POST /api/add-blog
add_blog(blog) ==
    /\ Started < MaxOps
    /\ LET oid == ObjectId(oidCounter + 1)
       IN  /\ blogs_collection' = Append(blogs_collection, NewBlog(blog, oid))
           /\ oidCounter' = oidCounter + 1
           /\ responses' = Append(responses,
                  Answered("add-blog", blog,
                      Response(200, [message |-> "Blog added", id |-> StrOfObjectId(oid)])))
    /\ UNCHANGED <<collection, tasks>>

\* PATCH /api/update-blog-content/{blog_id}
update_blog_content(blog_id, markdown_content) ==
    /\ Started < MaxOps
    /\ LET oid == ParseObjectId(blog_id)
           r == UpdateOneContent(blogs_collection, oid, markdown_content)
           arg == [blog_id |-> blog_id, markdown_content |-> markdown_content]
       IN  IF oid = None
           THEN \* ObjectId(blog_id) raised InvalidId before the store was called
                /\ blogs_collection' = blogs_collection
                /\ responses' = Append(responses,
                       Answered("update-blog-content", arg, InternalServerError))
           ELSE /\ blogs_collection' = r.coll
                /\ responses' = Append(responses,
                       Answered("update-blog-content", arg,
                           IF r.matched_count = 0
                           THEN HTTPException(404, "Blog not found")
                           ELSE Response(200,
                                  [message |-> "Markdown content updated successfully"])))
    /\ UNCHANGED <<collection, oidCounter, tasks>>

\* ----------------------------------------------------------- User Registry
Idle == [pc |-> "idle"]

\* a free coroutine slot: the lowest one (slots are interchangeable)
FreeTask == Min({ t \in DOMAIN tasks : tasks[t].pc = "idle" })

\* collection.insert_one(user.dict())
InsertUser(coll, user, oid) ==
    Append(coll, [_id |-> oid, username |-> user.username, email |-> user.email])

\* POST /dbusers/, up to the first await: find_one({"email": user.email})
create_dbuser_find(user) ==
    /\ Started < MaxOps
    /\ \E t \in DOMAIN tasks : tasks[t].pc = "idle"
    /\ tasks' = [tasks EXCEPT ![FreeTask] =
                   [pc |-> "found", user |-> user,
                    existing_user |-> find_one(collection, "email", user.email)]]
    /\ UNCHANGED <<collection, blogs_collection, oidCounter, responses>>

\* POST /dbusers/, from the first await on: the check on existing_user, then
\* insert_one and the response
create_dbuser_insert(t) ==
    /\ tasks[t].pc = "found"
    /\ LET user == tasks[t].user
           oid == ObjectId(oidCounter + 1)
       IN  IF tasks[t].existing_user # None
           THEN /\ responses' = Append(responses,
                       Answered("create-dbuser", user,
                           HTTPException(400, "Email already registered")))
                /\ UNCHANGED <<collection, oidCounter>>
           ELSE /\ collection' = InsertUser(collection, user, oid)
                /\ oidCounter' = oidCounter + 1
                /\ responses' = Append(responses,
                       Answered("create-dbuser", user,
                           Response(200, [user_id |-> StrOfObjectId(oid),
                                          username |-> user.username])))
    /\ tasks' = [tasks EXCEPT ![t] = Idle]
    /\ UNCHANGED blogs_collection

\* GET /dbusers/{user_id}: find_one({"_id": user_id}) with the path text itself
get_dbuser(user_id) ==
    /\ Started < MaxOps
    /\ LET user == find_one(collection, "_id", user_id)
       IN  responses' = Append(responses,
               Answered("get-dbuser", user_id,
                   IF user # None
                   THEN Response(200, [user_id |-> user_id, username |-> user.username])
                   ELSE HTTPException(404, "User not found")))
    /\ UNCHANGED <<collection, blogs_collection, oidCounter, tasks>>

\* GET /dbusers/username/{username}
get_dbuser_by_username(username) ==
    /\ Started < MaxOps
    /\ LET user == find_one(collection, "username", username)
       IN  responses' = Append(responses,
               Answered("get-dbuser-by-username", username,
                   IF user # None
                   THEN Response(200, [user_id |-> StrOfObjectId(user._id),
                                       username |-> user.username])
                   ELSE HTTPException(404, "User not found")))
    /\ UNCHANGED <<collection, blogs_collection, oidCounter, tasks>>

\* ---------------------------------------------------------- specifications
Init ==
    /\ collection = <<>>
    /\ blogs_collection = <<>>
    /\ oidCounter = 0
    /\ tasks = [t \in 1..MaxTasks |-> Idle]
    /\ responses = <<>>

CounterNext ==
    \E ip_address \in IpPaths :
        \/ get_or_create_no_increment(ip_address)
        \/ get_or_create_and_increment(ip_address)
        \/ reset_request_count(ip_address)

BlogNext ==
    \/ \E blog \in BlogInputs : add_blog(blog)
    \/ \E blog_id \in IdPaths : delete_blog(blog_id)
    \/ \E blog_id \in IdPaths, content \in ContentInputs :
           update_blog_content(blog_id, content)

UserNext ==
    \/ \E user \in UserInputs : create_dbuser_find(user)
    \/ \E t \in DOMAIN tasks : create_dbuser_insert(t)
    \/ \E user_id \in IdPaths : get_dbuser(user_id)
    \/ \E username \in Usernames : get_dbuser_by_username(username)

Next == CounterNext \/ BlogNext \/ UserNext

\* the whole application
Spec == Init /\ [][Next]_vars

\* the requests of one service only (the other services' routes are not called)
CounterSpec == Init /\ [][CounterNext]_vars
BlogSpec == Init /\ [][BlogNext]_vars
UserSpec == Init /\ [][UserNext]_vars

\* ------------------------------------------------------ vocabulary of the claims
\* the keys of the Counter Service: the path texts that are IP addresses
IpAddresses == { ip \in IpPaths : IsIPvAnyAddress(ip) }

CounterOps == { "no-increment", "increment", "reset" }

\* the most recently answered request, before and after a step
Last == responses[Len(responses)]
LastAfter == responses'[Len(responses')]

\* this step answers a request of route op
Answers(op) ==
    /\ Len(responses') = Len(responses) + 1
    /\ LastAfter.op = op

\* the counter entities stored for ip
CountersOf(coll, ip) ==
    { i \in 1..Len(coll) : "ip_address" \in DOMAIN coll[i] /\ coll[i].ip_address = ip }

HasCounter(coll, ip) == CountersOf(coll, ip) # {}

StoredCount(coll, ip) == coll[Min(CountersOf(coll, ip))].request_count

\* the answered requests of the Counter Service on ip
OnIp(ip) ==
    { i \in 1..Len(responses) : responses[i].op \in CounterOps /\ responses[i].arg = ip }

\* index of the last reset of ip that found the entity (0: never reset)
LastReset(ip) ==
    LET rs == { i \in OnIp(ip) : responses[i].op = "reset" /\ responses[i].status # 404 }
    IN  IF rs = {} THEN 0 ELSE CHOOSE i \in rs : \A j \in rs : j <= i

\* the increment calls on ip since the entity's creation or its last reset
IncrementsSince(ip) ==
    { i \in OnIp(ip) : responses[i].op = "increment" /\ i > LastReset(ip) }

\* ------------------------------------------------------------------ C1
\* C1: no increment is lost.  For every key, with every call answered, the
\* stored request count equals the number N of get_or_create_and_increment
\* calls on that key since the entity's creation or last reset; for every key
\* that is an IP address those N calls answered 200 with N pairwise distinct
\* post-increment counts.
C1_NoLostIncrement ==
    \A ip \in IpPaths :
        /\ IncrementsSince(ip) # {} => HasCounter(collection, ip)
        /\ HasCounter(collection, ip) =>
               StoredCount(collection, ip) = Cardinality(IncrementsSince(ip))
        /\ ip \in IpAddresses =>
               \A i, j \in IncrementsSince(ip) :
                   /\ responses[i].status = 200
                   /\ i # j => responses[i].body.request_count # responses[j].body.request_count

\* a key that was reset and then incremented twice, with every call answered
C1_Witness ==
    \E ip \in IpAddresses :
        /\ LastReset(ip) > 0
        /\ Cardinality(IncrementsSince(ip)) = 2

\* ------------------------------------------------------------------ C2
\* C2: at most one creation per key.  After every step the store holds at
\* most one counter entity per IP address, and every get_or_create or
\* get_or_create_and_increment call on an IP address answers 200 with the
\* count of that single entity as stored when the call was applied.
C2_SingleEntity ==
    [][ /\ \A ip \in IpPaths : Cardinality(CountersOf(collection', ip)) <= 1
        /\ \A ip \in IpAddresses :
              ((Answers("no-increment") \/ Answers("increment")) /\ LastAfter.arg = ip) =>
                  /\ Cardinality(CountersOf(collection', ip)) = 1
                  /\ LastAfter.status = 200
                  /\ LastAfter.body.request_count = StoredCount(collection', ip)
      ]_vars

\* both kinds of call have raced on one key and one entity is stored
C2_Witness ==
    \E ip \in IpAddresses :
        /\ \E i, j \in OnIp(ip) :
              /\ responses[i].op = "no-increment"
              /\ responses[j].op = "increment"
        /\ Cardinality(CountersOf(collection, ip)) = 1

\* ------------------------------------------------------------------ C3
\* C3: get_or_create(key) never changes a count.  On an unseen key it adds
\* one entity with count 0 (every stored document is kept as it is) and
\* answers 0; on an existing key it leaves the store unchanged and answers
\* the stored count; so a get_or_create that directly follows a
\* get_or_create of the same key answers the same count.
C3_NoIncrementFrame ==
    [][ \A ip \in IpPaths :
          (Answers("no-increment") /\ LastAfter.arg = ip) =>
              /\ IF HasCounter(collection, ip)
                 THEN /\ collection' = collection
                      /\ ip \in IpAddresses =>
                            /\ LastAfter.status = 200
                            /\ LastAfter.body.request_count = StoredCount(collection, ip)
                 ELSE /\ Len(collection') = Len(collection) + 1
                      /\ SubSeq(collection', 1, Len(collection)) = collection
                      /\ collection'[Len(collection')].ip_address = ip
                      /\ collection'[Len(collection')].request_count = 0
                      /\ ip \in IpAddresses =>
                            /\ LastAfter.status = 200
                            /\ LastAfter.body.request_count = 0
              /\ (/\ ip \in IpAddresses
                  /\ responses # <<>>
                  /\ Last.op = "no-increment"
                  /\ Last.arg = ip) =>
                     LastAfter.body.request_count = Last.body.request_count
      ]_vars

\* two get_or_create calls in a row on a key whose count is not 0
C3_Witness ==
    \E ip \in IpAddresses : \E i \in 1..(Len(responses) - 1) :
        /\ responses[i].op = "no-increment" /\ responses[i].arg = ip
        /\ responses[i + 1].op = "no-increment" /\ responses[i + 1].arg = ip
        /\ responses[i + 1].body.request_count > 0

\* ------------------------------------------------------------------ C4
\* C4: for every key that is an IP address, when the calls made on the key
\* since it had no entity are N get_or_create_and_increment calls, they
\* answered 1, 2, ..., N in that order, and the stored count is N.
C4_SequentialCounts ==
    \A ip \in IpAddresses :
        \A i \in OnIp(ip) :
            (\A j \in OnIp(ip) : j <= i => responses[j].op = "increment") =>
                /\ responses[i].status = 200
                /\ responses[i].body.request_count =
                       Cardinality({ j \in OnIp(ip) : j <= i })
                /\ (i = CHOOSE m \in OnIp(ip) : \A j \in OnIp(ip) : j <= m) =>
                       StoredCount(collection, ip) = Cardinality(OnIp(ip))

\* three increments in a row on a fresh key
C4_Witness ==
    \E ip \in IpAddresses :
        /\ Cardinality(OnIp(ip)) = 3
        /\ \A i \in OnIp(ip) : responses[i].op = "increment"

\* ------------------------------------------------------------------ C5
\* C5: reset(key) on a key with no entity answers 404 and leaves the store
\* unchanged; on a key with an entity it sets that entity's count to 0,
\* changes nothing else and, for a key that is an IP address, answers 0;
\* the get_or_create_and_increment that directly follows such a reset of
\* the same key answers 1.
C5_Reset ==
    [][ \A ip \in IpPaths :
          /\ (Answers("reset") /\ LastAfter.arg = ip) =>
                IF HasCounter(collection, ip)
                THEN /\ Len(collection') = Len(collection)
                     /\ \A i \in 1..Len(collection) :
                           IF i \in CountersOf(collection, ip)
                           THEN collection'[i] = [collection[i] EXCEPT !.request_count = 0]
                           ELSE collection'[i] = collection[i]
                     /\ ip \in IpAddresses =>
                           /\ LastAfter.status = 200
                           /\ LastAfter.body.request_count = 0
                ELSE /\ LastAfter.status = 404
                     /\ collection' = collection
          /\ (/\ Answers("increment") /\ LastAfter.arg = ip
              /\ ip \in IpAddresses
              /\ responses # <<>>
              /\ Last.op = "reset" /\ Last.arg = ip /\ Last.status = 200) =>
                 /\ LastAfter.status = 200
                 /\ LastAfter.body.request_count = 1
      ]_vars

\* a reset of an unseen key was refused, and a reset of a key counted up to
\* 1 or more was followed by an increment
C5_Witness ==
    /\ \E i \in 1..Len(responses) :
          responses[i].op = "reset" /\ responses[i].status = 404
    /\ \E i \in 2..(Len(responses) - 1) :
          /\ responses[i - 1].op = "increment" /\ responses[i - 1].status = 200
          /\ responses[i].op = "reset" /\ responses[i].status = 200
          /\ responses[i].arg = responses[i - 1].arg
          /\ responses[i + 1].op = "increment"
          /\ responses[i + 1].arg = responses[i].arg

\* ------------------------------------------------------------------ C6
\* the user documents of the collection
Users(coll) == { i \in 1..Len(coll) : "email" \in DOMAIN coll[i] }

\* C6: email is unique across all users.  After every step the store holds
\* at most one user document per email, and a create answered while its
\* email is already stored answers 400 and inserts nothing.
C6_EmailUnique ==
    [][ /\ \A i, j \in Users(collection') :
              collection'[i].email = collection'[j].email => i = j
        /\ (/\ Answers("create-dbuser")
            /\ \E i \in Users(collection) : collection[i].email = LastAfter.arg.email) =>
               /\ LastAfter.status = 400
               /\ collection' = collection
      ]_vars

\* ------------------------------------------------------------------ C7
\* the create requests answered before the i-th answer that stored a user
CreatedBefore(i) ==
    { j \in 1..(i - 1) : responses[j].op = "create-dbuser" /\ responses[j].status = 200 }

\* C7: lookup finds what create stored.  get_by_id called with an identifier
\* that an earlier create returned answers 200 with that user's username,
\* get_by_username called with the username of a stored user answers 200,
\* and either answers 404 only when no stored user matches.
C7_LookupFindsCreated ==
    \A i \in 1..Len(responses) :
        /\ responses[i].op = "get-dbuser" =>
              \A j \in CreatedBefore(i) :
                  responses[j].body.user_id = responses[i].arg =>
                      /\ responses[i].status = 200
                      /\ responses[i].body.username = responses[j].body.username
        /\ responses[i].op = "get-dbuser-by-username" =>
              \A j \in CreatedBefore(i) :
                  responses[j].body.username = responses[i].arg =>
                      /\ responses[i].status = 200
                      /\ responses[i].body.username = responses[i].arg

\* ------------------------------------------------------------------ C8
\* the stored blogs whose identifier has the text blog_id
BlogsWithId(coll, blog_id) ==
    { i \in 1..Len(coll) : StrOfObjectId(coll[i]._id) = blog_id }

\* C8: delete(id) answers 204 exactly when a blog with that identifier is
\* stored, and then removes exactly that blog; for every identifier that
\* matches no stored blog it answers 404 and leaves the store unchanged.
C8_Delete ==
    [][ Answers("delete-blog") =>
          LET hits == BlogsWithId(blogs_collection, LastAfter.arg)
          IN  IF hits # {}
              THEN /\ LastAfter.status = 204
                   /\ \E i \in hits : blogs_collection' = RemoveAt(blogs_collection, i)
              ELSE /\ LastAfter.status = 404
                   /\ blogs_collection' = blogs_collection
      ]_vars

\* ------------------------------------------------------------------ C9
\* C9: update_content(id, new_content) on a stored blog replaces the markdown
\* content of that blog and nothing else; when the identifier matches no
\* stored blog it answers 404 and changes nothing.
C9_UpdateContent ==
    [][ Answers("update-blog-content") =>
          LET hits == BlogsWithId(blogs_collection, LastAfter.arg.blog_id)
          IN  IF hits # {}
              THEN /\ LastAfter.status = 200
                   /\ Len(blogs_collection') = Len(blogs_collection)
                   /\ \A i \in 1..Len(blogs_collection) :
                         blogs_collection'[i] =
                             IF i \in hits
                             THEN [blogs_collection[i] EXCEPT
                                      !.MarkdownContent = LastAfter.arg.markdown_content]
                             ELSE blogs_collection[i]
              ELSE /\ LastAfter.status = 404
                   /\ blogs_collection' = blogs_collection
      ]_vars

\* ------------------------------------------------------------------ C10
\* C10: malformed input is rejected before the handler runs.  A counter
\* request whose key is not an IP address ends in an error response, and a
\* request that ends in an error response has changed nothing in the store.
C10_RejectedBeforeHandler ==
    [][ (Len(responses') = Len(responses) + 1) =>
          /\ (LastAfter.op \in CounterOps /\ ~IsIPvAnyAddress(LastAfter.arg)) =>
                 LastAfter.status \notin {200, 204}
          /\ LastAfter.status \notin {200, 204} =>
                 /\ collection' = collection
                 /\ blogs_collection' = blogs_collection
      ]_vars

====
